---- MODULE Spec2Model ----
(***************************************************************************)
(* CatanTournamentBot: the Discord bot (main.py) that watches Colonist.io  *)
(* games through ColonistMonitor threads (game_monitor.py), whose browser  *)
(* loads the game script through a rewriting proxy (colonist_intercept.py).*)
(*                                                                         *)
(* Scheduling.  The bot's commands and the cleanup loop are coroutines of  *)
(* one asyncio event loop: a coroutine runs without interruption from one  *)
(* await to the next, so a command handler runs only while the cleanup     *)
(* loop is suspended at an await.  Every ColonistMonitor._monitor_game is  *)
(* a daemon thread and interleaves freely with everything else.            *)
(***************************************************************************)
EXTENDS Integers, Sequences, FiniteSets, TLC

(***************************************************************************)
(* Bounds of the model.                                                    *)
(***************************************************************************)
NumGames    == 2   \* game ids are 1..NumGames
MaxMonitors == 2   \* ColonistMonitor objects created in one run
MaxTime     == 3   \* the clock counts seconds 0..MaxTime
MaxLog      == 2   \* the page shows a phase change only while the log is shorter
MaxCount    == 2   \* a victory point category counts 0..MaxCount
MaxBody     == 2   \* an intercepted script body has 0..MaxBody pieces
\* The program's limits, scaled down so that the model reaches them:
MAX_HISTORY      == 1   \* main.py:16 has 100
max_attempts     == 2   \* game_monitor.py:75 has 30
max_wait_seconds == 1   \* game_monitor.py:34 has 300

GameIds  == 1..NumGames
Channels == {"chan"}                  \* Discord channel ids

(***************************************************************************)
(* Python values.  A dict is a function on its key set, None is NoneVal.   *)
(***************************************************************************)
NoneVal == [none |-> TRUE]
EmptyDict == [k \in {} |-> 0]

Get(d, k, default) == IF k \in DOMAIN d THEN d[k] ELSE default

Falsy(v) == v = NoneVal \/ DOMAIN v = {}

(***************************************************************************)
(* What the page can hand back to a probe.                                 *)
(***************************************************************************)
Alice == [state |-> [color |-> 0, victoryPointsState |-> ("0" :> 2 @@ "1" :> 1)],
          userState |-> [username |-> "Alice"]]
NoUser == [state |-> [color |-> 1]]

GS_Ongoing   == [isGameOver |-> FALSE, players |-> <<Alice>>]
GS_Over      == [isGameOver |-> TRUE,  players |-> <<Alice>>]
GS_Malformed == [isGameOver |-> FALSE, players |-> <<Alice, NoUser>>]

EG_Ok        == [players |-> << <<"0", [victoryPoints |-> ("0" :> 3 @@ "3" :> 1),
                                        winningPlayer |-> TRUE]>> >>]
EG_NoPlayers == [isReplayAvailable |-> TRUE]
EG_Malformed == [players |-> << <<"0", [winningPlayer |-> TRUE]>> >>]

\* A page: the values its probes may return and the faults they may raise.
\* RichPage serves the loop run alone (LoopSpec); LeanPage serves each of the
\* concurrent loops under the bot (Spec).
ProbeFaults == {"NotReady", "RuntimeFault"}
RichPage == [phases |-> {"turn", "dice"},
             game_states |-> {NoneVal, GS_Ongoing, GS_Over, GS_Malformed},
             end_states |-> {NoneVal, EG_NoPlayers, EG_Ok, EG_Malformed},
             faults |-> ProbeFaults]
LeanPage == [phases |-> {"turn"},
             game_states |-> {GS_Ongoing, GS_Over},
             end_states |-> {NoneVal, EG_Ok, EG_Malformed},
             faults |-> {"RuntimeFault"}]

(***************************************************************************)
(* Scoring Extractor (game_monitor.py).                                    *)
(***************************************************************************)
\* get_player_names raises KeyError on a player without state.color or
\* without userState.
GetPlayerNamesRaises(game_state) ==
    /\ ~Falsy(game_state)
    /\ "players" \in DOMAIN game_state
    /\ \E i \in 1..Len(game_state.players) :
          LET p == game_state.players[i] IN
             \/ "state" \notin DOMAIN p
             \/ "color" \notin DOMAIN p.state
             \/ "userState" \notin DOMAIN p

\* f"Color{color}"
ColorLabel(color) ==
    CASE color = 0 -> "Color0" [] color = 1 -> "Color1"
      [] color = 2 -> "Color2" [] OTHER -> "Color3"

RECURSIVE NamesOf(_, _)
NamesOf(players, names) ==
    IF players = <<>> THEN names
    ELSE LET p == Head(players)
             color == p.state.color
             username == Get(p.userState, "username", ColorLabel(color))
         IN NamesOf(Tail(players),
                    [c \in DOMAIN names \cup {color} |->
                        IF c = color THEN username ELSE names[c]])

get_player_names(game_state) ==
    IF Falsy(game_state) THEN EmptyDict
    ELSE NamesOf(Get(game_state, "players", <<>>), EmptyDict)

multipliers_all_one == [k \in {"0", "1", "2", "3", "4"} |-> 1]

\* 169-175
multipliers == ("0" :> 1 @@ "1" :> 2 @@ "2" :> 1 @@ "3" :> 2 @@ "4" :> 2)
multiplierKeys == <<"0", "1", "2", "3", "4">>

RECURSIVE SumPoints(_, _)
SumPoints(keys, vp_dict) ==
    IF keys = <<>> THEN 0
    ELSE Get(vp_dict, Head(keys), 0) * multipliers[Head(keys)]
         + SumPoints(Tail(keys), vp_dict)

calc_victory_points(vp_dict) == SumPoints(multiplierKeys, vp_dict)

\* 181, 186-187: None has no .get; player['userState'] and player['state']
\* raise KeyError on a player without them.
CalculateRaises(game_state) ==
    \/ game_state = NoneVal
    \/ \E i \in 1..Len(Get(game_state, "players", <<>>)) :
          \/ "userState" \notin DOMAIN game_state.players[i]
          \/ "state" \notin DOMAIN game_state.players[i]

\* 185-189: output[username] = pts, a later player replaces an earlier one of
\* the same name.
RECURSIVE PointsOf(_, _)
PointsOf(players, output) ==
    IF players = <<>> THEN output
    ELSE LET player == Head(players)
             username == Get(player.userState, "username", "Unknown")
             vp_dict == Get(player.state, "victoryPointsState", EmptyDict)
             pts == calc_victory_points(vp_dict)
         IN PointsOf(Tail(players),
                     [u \in DOMAIN output \cup {username} |->
                         IF u = username THEN pts ELSE output[u]])

\* 179-190
calculate_victory_points(game_state) ==
    PointsOf(Get(game_state, "players", <<>>), EmptyDict)

\* 193-199: the score table of the last record, None on an empty log
GetStatusRaises(monitor) ==
    /\ monitor.state_log # <<>>
    /\ CalculateRaises(monitor.state_log[Len(monitor.state_log)][2])

get_status(monitor) ==
    IF monitor.state_log # <<>>
    THEN calculate_victory_points(monitor.state_log[Len(monitor.state_log)][2])
    ELSE NoneVal

(***************************************************************************)
(* State.                                                                  *)
(***************************************************************************)
VARIABLES
    now,               \* time.time(), in seconds
    monitors,          \* the ColonistMonitor objects and their threads
    active_monitors,   \* main.py:22, a dict in insertion order
    completed_history, \* main.py:25
    recent_game_ids,   \* main.py:26
    channels,          \* the channels bot.get_channel finds
    sweep_pc,          \* where monitor_cleanup_loop stands
    snapshot,          \* list(active_monitors.items()) still to scan
    ended_game_ids,    \* main.py:118
    frame,             \* locals of the suspended post_final_results call
    reply,             \* the answer to the last command
    handling,          \* history: per monitor, what completion handling did
    recorded,          \* history: every id given to store_completed_game
    call               \* the last call of a function: argument and outcome

vars == <<now, monitors, active_monitors, completed_history, recent_game_ids,
          channels, sweep_pc, snapshot, ended_game_ids, frame, reply,
          handling, recorded, call>>

registryVars == <<active_monitors, completed_history, recent_game_ids,
                  channels, sweep_pc, snapshot, ended_game_ids, frame, reply,
                  handling, recorded>>

Monitors == 1..Len(monitors)

(***************************************************************************)
(* ColonistMonitor: __init__ followed by watch_game, which raises the      *)
(* monitoring flag and starts the thread.                                  *)
(***************************************************************************)
ColonistMonitor ==
    [monitoring |-> FALSE, game_id |-> 0, end_game_state |-> NoneVal,
     player_names |-> EmptyDict, state_log |-> <<>>,
     latest_update_time |-> 0,
     \* the thread: position and locals of _monitor_game
     pc |-> "new", attempts |-> 0, prev_current_state |-> "",
     curr_game_state |-> NoneVal, curr_current_state |-> "",
     \* history of the run: threads started, driver.quit() calls, how the
     \* loop ended, the fault of the last probe that raised
     threads |-> 0, quits |-> 0, outcome |-> "none", fault |-> "none"]

watch_game(mon, game_id) ==
    IF mon.monitoring THEN mon
    ELSE [mon EXCEPT !.game_id = game_id, !.monitoring = TRUE,
                     !.pc = "start", !.threads = @ + 1]

Put(m, mon) == monitors' = [monitors EXCEPT ![m] = mon]

\* Leaving the try block: the locals of _monitor_game are not read again.
Leave(mon, outcome) ==
    [mon EXCEPT !.pc = "finally", !.outcome = outcome, !.attempts = 0,
                !.prev_current_state = "", !.curr_game_state = NoneVal,
                !.curr_current_state = ""]

\* except Exception (134-136): the fault is printed, then the finally block.
Raise(mon, f) == [Leave(mon, "error") EXCEPT !.fault = f]

(***************************************************************************)
(* ColonistMonitor._monitor_game, one action per blocking call.            *)
(***************************************************************************)
\* 76: while not defined and attempts < max_attempts
LoopCond_off_by_one(mon) == mon.attempts <= max_attempts

LoopCond(mon) == mon.attempts < max_attempts

\* 69-75: driver.get(url), then the first test of the loop condition
Navigate(m) ==
    /\ m \in Monitors
    /\ monitors[m].pc = "start"
    /\ \E ok \in BOOLEAN :
          Put(m, IF ok
                 THEN [monitors[m] EXCEPT
                          !.attempts = 0,
                          !.pc = IF LoopCond([monitors[m] EXCEPT !.attempts = 0])
                                 THEN "wait" ELSE "never"]
                 ELSE Raise(monitors[m], "Navigation"))
    /\ UNCHANGED <<call, now, registryVars>>

\* 76-82: one probe of the controller's phase; any exception counts an attempt.
\* 89: on success the stall window starts.
WaitProbe(m, page) ==
    /\ m \in Monitors
    /\ monitors[m].pc = "wait"
    /\ \E r \in {"ok"} \cup page.faults :
          Put(m, IF r = "ok"
                 THEN [monitors[m] EXCEPT !.pc = "init_phase", !.fault = "none",
                                          !.latest_update_time = now]
                 ELSE [monitors[m] EXCEPT !.attempts = @ + 1, !.fault = r,
                                          !.pc = "wait_sleep"])
    /\ UNCHANGED <<call, now, registryVars>>

\* 82: time.sleep(1), then the loop condition of line 76.
WaitSleep(m) ==
    /\ m \in Monitors
    /\ monitors[m].pc = "wait_sleep"
    /\ Put(m, [monitors[m] EXCEPT
                  !.pc = IF LoopCond(monitors[m]) THEN "wait" ELSE "never"])
    /\ UNCHANGED <<call, now, registryVars>>

HandleNeverAppeared_no_finally(m) ==
    /\ m \in Monitors
    /\ monitors[m].pc = "never"
    /\ Put(m, [Leave(monitors[m], "never") EXCEPT !.monitoring = FALSE,
                                                  !.pc = "done"])
    /\ UNCHANGED <<call, now, registryVars>>

\* 84-87: the handle never appeared; the return runs the finally block.
HandleNeverAppeared(m) ==
    /\ m \in Monitors
    /\ monitors[m].pc = "never"
    /\ Put(m, [Leave(monitors[m], "never") EXCEPT !.monitoring = FALSE])
    /\ UNCHANGED <<call, now, registryVars>>

\* 92: the initial phase.
InitPhase(m, page) ==
    /\ m \in Monitors
    /\ monitors[m].pc = "init_phase"
    /\ \E r \in page.phases \cup page.faults :
          Put(m, IF r \in page.faults THEN Raise(monitors[m], r)
                 ELSE [monitors[m] EXCEPT !.prev_current_state = r,
                                          !.pc = "init_gs"])
    /\ UNCHANGED <<call, now, registryVars>>

\* 93-97: the initial raw state, the name mapping, the first record.
InitGameState(m, page) ==
    /\ m \in Monitors
    /\ monitors[m].pc = "init_gs"
    /\ \/ \E f \in page.faults : Put(m, Raise(monitors[m], f))
       \/ \E g \in page.game_states :
             Put(m, IF GetPlayerNamesRaises(g)
                    THEN Raise(monitors[m], "KeyError")
                    ELSE [monitors[m] EXCEPT
                             !.player_names = get_player_names(g),
                             !.state_log = Append(@, <<monitors[m].prev_current_state, g>>),
                             !.pc = "poll_gs"])
    /\ UNCHANGED <<call, now, registryVars>>

PollGameState_no_grace(m, page) ==
    /\ m \in Monitors
    /\ monitors[m].pc = "poll_gs"
    /\ \/ \E f \in page.faults : Put(m, Raise(monitors[m], f))
       \/ \E g \in page.game_states :
             Put(m, IF g = NoneVal THEN Raise(monitors[m], "AttributeError")
                    ELSE IF Get(g, "isGameOver", FALSE)
                    THEN [monitors[m] EXCEPT !.curr_game_state = g,
                                             !.pc = "probe_end"]
                    ELSE [monitors[m] EXCEPT !.curr_game_state = g,
                                             !.pc = "poll_phase"])
    /\ UNCHANGED <<call, now, registryVars>>

\* 100-103: the live game state and its game-over flag; None has no .get.
PollGameState(m, page) ==
    /\ m \in Monitors
    /\ monitors[m].pc = "poll_gs"
    /\ \/ \E f \in page.faults : Put(m, Raise(monitors[m], f))
       \/ \E g \in page.game_states :
             Put(m, IF g = NoneVal THEN Raise(monitors[m], "AttributeError")
                    ELSE IF Get(g, "isGameOver", FALSE)
                    THEN [monitors[m] EXCEPT !.curr_game_state = g,
                                             !.pc = "grace"]
                    ELSE [monitors[m] EXCEPT !.curr_game_state = g,
                                             !.pc = "poll_phase"])
    /\ UNCHANGED <<call, now, registryVars>>

Grace_lowers_flag(m) ==
    /\ m \in Monitors
    /\ monitors[m].pc = "grace"
    /\ Put(m, [monitors[m] EXCEPT !.pc = "probe_end", !.monitoring = FALSE])
    /\ UNCHANGED <<call, now, registryVars>>

\* 103: time.sleep(1), the grace period.
Grace(m) ==
    /\ m \in Monitors
    /\ monitors[m].pc = "grace"
    /\ Put(m, [monitors[m] EXCEPT !.pc = "probe_end"])
    /\ UNCHANGED <<call, now, registryVars>>

\* 104-115: the end-of-game global is recorded (db is None), then break.
ProbeEnd(m, page) ==
    /\ m \in Monitors
    /\ monitors[m].pc = "probe_end"
    /\ \/ \E f \in page.faults : Put(m, Raise(monitors[m], f))
       \/ \E e \in page.end_states :
             Put(m, [Leave(monitors[m], "success") EXCEPT !.end_game_state = e])
    /\ UNCHANGED <<call, now, registryVars>>

StallCheck_at_window(mon) ==
    IF now - mon.latest_update_time >= max_wait_seconds
    THEN Leave(mon, "timeout")
    ELSE [mon EXCEPT !.pc = "poll_gs"]

\* 127-130 after 118-125: the stall check of one tick.
StallCheck(mon) ==
    IF now - mon.latest_update_time > max_wait_seconds
    THEN Leave(mon, "timeout")
    ELSE [mon EXCEPT !.pc = "poll_gs"]           \* 132: time.sleep(0.05)

PollPhase_prev_not_updated(m, page) ==
    /\ m \in Monitors
    /\ monitors[m].pc = "poll_phase"
    /\ \/ \E f \in page.faults : Put(m, Raise(monitors[m], f))
       \/ \E p \in page.phases :
             /\ p # monitors[m].prev_current_state
                   => Len(monitors[m].state_log) < MaxLog
             /\ Put(m, IF p # monitors[m].prev_current_state
                       THEN StallCheck([monitors[m] EXCEPT
                               !.curr_current_state = p,
                               !.latest_update_time = now,
                               !.state_log = Append(@, <<p, monitors[m].curr_game_state>>)])
                       ELSE StallCheck([monitors[m] EXCEPT
                               !.curr_current_state = p]))
    /\ UNCHANGED <<call, now, registryVars>>

\* 117-132: the phase probe, the record on a change, the stall check.
PollPhase(m, page) ==
    /\ m \in Monitors
    /\ monitors[m].pc = "poll_phase"
    /\ \/ \E f \in page.faults : Put(m, Raise(monitors[m], f))
       \/ \E p \in page.phases :
             /\ p # monitors[m].prev_current_state
                   => Len(monitors[m].state_log) < MaxLog
             /\ Put(m, IF p # monitors[m].prev_current_state
                       THEN StallCheck([monitors[m] EXCEPT
                               !.curr_current_state = p,
                               !.latest_update_time = now,
                               !.state_log = Append(@, <<p, monitors[m].curr_game_state>>),
                               !.prev_current_state = p])
                       ELSE StallCheck([monitors[m] EXCEPT
                               !.curr_current_state = p]))
    /\ UNCHANGED <<call, now, registryVars>>

\* 137-138: finally, the flag goes down.
Finally(m) ==
    /\ m \in Monitors
    /\ monitors[m].pc = "finally"
    /\ Put(m, [monitors[m] EXCEPT !.monitoring = FALSE, !.pc = "quit"])
    /\ UNCHANGED <<call, now, registryVars>>

\* 139-140: the driver was set by start_driver; driver.quit().
Quit(m) ==
    /\ m \in Monitors
    /\ monitors[m].pc = "quit"
    /\ Put(m, [monitors[m] EXCEPT !.quits = @ + 1, !.pc = "done"])
    /\ UNCHANGED <<call, now, registryVars>>

Tick ==
    /\ now < MaxTime
    /\ now' = now + 1
    /\ UNCHANGED <<call, monitors, registryVars>>

Thread(m, page) ==
    \/ Navigate(m) \/ WaitProbe(m, page) \/ WaitSleep(m) \/ HandleNeverAppeared(m)
    \/ InitPhase(m, page) \/ InitGameState(m, page) \/ PollGameState(m, page) \/ Grace(m)
    \/ ProbeEnd(m, page) \/ PollPhase(m, page) \/ Finally(m) \/ Quit(m)

(***************************************************************************)
(* game_monitor.py run alone (main, 202-218): one monitor, one game.       *)
(***************************************************************************)
LoopInit ==
    /\ now = 0
    /\ monitors = <<watch_game(ColonistMonitor, 1)>>
    /\ active_monitors = <<>>
    /\ completed_history = EmptyDict
    /\ recent_game_ids = <<>>
    /\ channels = {}
    /\ sweep_pc = "sleep"
    /\ snapshot = <<>>
    /\ ended_game_ids = <<>>
    /\ frame = NoneVal
    /\ reply = ""
    /\ handling = <<>>
    /\ recorded = <<>>
    /\ call = NoneVal

LoopNext == Tick \/ \E m \in 1..MaxMonitors : Thread(m, RichPage)

LoopSpec == LoopInit /\ [][LoopNext]_vars

(***************************************************************************)
(* main.py: the registry.                                                  *)
(***************************************************************************)
ActiveIds == {active_monitors[i].gid : i \in 1..Len(active_monitors)}

\* active_monitors[gid]
Info(gid) ==
    active_monitors[CHOOSE i \in 1..Len(active_monitors) :
                        active_monitors[i].gid = gid]

\* active_monitors.pop(gid, None): the dict without the key
Without(gid) == SelectSeq(active_monitors, LAMBDA e : e.gid # gid)

\* 39-54
store_completed_game(history, recent, game_id, results, channel_id) ==
    LET entry == [results |-> results, timestamp |-> now,
                  channel_id |-> channel_id]
        stored == [g \in DOMAIN history \cup {game_id} |->
                      IF g = game_id THEN entry ELSE history[g]]
        ids == Append(recent, game_id)
    IN IF Len(ids) > MAX_HISTORY
       THEN [history |-> [g \in DOMAIN stored \ {Head(ids)} |-> stored[g]],
             recent |-> Tail(ids)]
       ELSE [history |-> stored, recent |-> ids]

\* int(color_str); ValueError on anything else
IntTable == ("0" :> 0 @@ "1" :> 1 @@ "2" :> 2 @@ "3" :> 3)
IntRaises(str) == str \notin DOMAIN IntTable

FinalResults_labels_only(items, player_names) ==
    [i \in 1..Len(items) |->
        <<ColorLabel(IntTable[items[i][1]]),
          calc_victory_points(items[i][2].victoryPoints),
          Get(items[i][2], "winningPlayer", FALSE)>>]

\* 86-92: one (username, vps, winner) per entry of end_game_state['players']
RECURSIVE FinalResults(_, _)
FinalResults(items, player_names) ==
    IF items = <<>> THEN <<>>
    ELSE LET color_int == IntTable[Head(items)[1]]
             player_info == Head(items)[2]
         IN <<  <<Get(player_names, color_int, ColorLabel(color_int)),
                  calc_victory_points(player_info.victoryPoints),
                  Get(player_info, "winningPlayer", FALSE)>>  >>
            \o FinalResults(Tail(items), player_names)

\* 84-91: the exceptions of the block
FinalResultsRaises(mon) ==
    \/ /\ Len(mon.state_log) > 0
       /\ GetPlayerNamesRaises(mon.state_log[Len(mon.state_log)][2])
    \/ \E i \in 1..Len(mon.end_game_state.players) :
          \/ IntRaises(mon.end_game_state.players[i][1])
          \/ "victoryPoints" \notin DOMAIN mon.end_game_state.players[i][2]

\* game_id[1:] when the argument starts with '#'
StripHash(arg) == IF arg[1] = "#" THEN <<"", arg[2]>> ELSE arg

\* The event loop runs a command only while the cleanup loop is suspended.
AtAwait == sweep_pc \in {"sleep", "scan_send", "post_send_78", "post_send_102",
                         "crashed"}

Note(m, kind) == [handling EXCEPT ![m].sent = @ \cup {kind}]

\* 149: game_id in active_monitors
IsWatched_never(game_id) == FALSE

IsWatched(game_id) == game_id \in ActiveIds

\* 139-172: !watch
Watch(arg, ch) ==
    LET game_id == StripHash(arg)[2] IN
    /\ AtAwait
    /\ ch \in channels
    /\ IF IsWatched(game_id)
       THEN /\ reply' = "AlreadyActive"
            /\ UNCHANGED <<monitors, active_monitors, handling>>
       ELSE IF game_id \in DOMAIN completed_history
       THEN /\ reply' = "AlreadyCompleted"
            /\ UNCHANGED <<monitors, active_monitors, handling>>
       ELSE /\ Len(monitors) < MaxMonitors
            /\ monitors' = Append(monitors, watch_game(ColonistMonitor, game_id))
            /\ active_monitors' =
                  Append(active_monitors,
                         [gid |-> game_id, monitor |-> Len(monitors) + 1,
                          channel_id |-> ch])
            /\ handling' = Append(handling,
                                  [popped |-> 0, stored |-> 0, sent |-> {}])
            /\ reply' = "Started"
    /\ UNCHANGED <<call, now, completed_history, recent_game_ids, channels, sweep_pc,
                   snapshot, ended_game_ids, frame, recorded>>

\* The record of a call: the function, its argument, whether it raised and
\* what it returned.
Returned(fn, arg, result) ==
    [fn |-> fn, arg |-> arg, done |-> TRUE, raised |-> FALSE, result |-> result]
Raised(fn, arg) ==
    [fn |-> fn, arg |-> arg, done |-> TRUE, raised |-> TRUE, result |-> NoneVal]

\* 175-215: !gamestate
GameState(arg, ch) ==
    LET game_id == StripHash(arg)[2] IN
    /\ AtAwait
    /\ ch \in channels
    /\ IF game_id \in ActiveIds
       THEN LET monitor == monitors[Info(game_id).monitor] IN
            IF GetStatusRaises(monitor)
            THEN \* the exception leaves the command without an answer
                 /\ call' = Raised("get_status", game_id)
                 /\ reply' = "Raised"
            ELSE /\ call' = Returned("get_status", game_id, get_status(monitor))
                 /\ reply' = IF ~Falsy(get_status(monitor))
                             THEN "Current" ELSE "NoStateYet"
       ELSE IF game_id \in DOMAIN completed_history
       THEN /\ reply' = IF DOMAIN completed_history[game_id].results = {}
                        THEN "NoFinalScores" ELSE "Final"
            /\ UNCHANGED call
       ELSE /\ reply' = "NotFound"
            /\ UNCHANGED call
    /\ UNCHANGED <<now, monitors, active_monitors, completed_history,
                   recent_game_ids, channels, sweep_pc, snapshot,
                   ended_game_ids, frame, handling, recorded>>

\* A channel is deleted; bot.get_channel returns None from then on.
DeleteChannel(ch) ==
    /\ ch \in channels
    /\ channels' = channels \ {ch}
    /\ UNCHANGED <<call, now, monitors, active_monitors, completed_history,
                   recent_game_ids, sweep_pc, snapshot, ended_game_ids, frame,
                   reply, handling, recorded>>

\* 115-119: an iteration starts on a copy of the dict's items.
SweepWake ==
    /\ sweep_pc = "sleep"
    /\ sweep_pc' = "scan"
    /\ snapshot' = active_monitors
    /\ ended_game_ids' = <<>>
    /\ UNCHANGED <<call, now, monitors, active_monitors, completed_history,
                   recent_game_ids, channels, frame, reply, handling, recorded>>

\* 119-126: the next item; channel.send on None raises out of the loop.
SweepScan ==
    /\ sweep_pc = "scan"
    /\ snapshot # <<>>
    /\ LET info == Head(snapshot) IN
       IF monitors[info.monitor].monitoring
       THEN /\ snapshot' = Tail(snapshot)
            /\ UNCHANGED <<sweep_pc, handling>>
       ELSE IF info.channel_id \notin channels
       THEN /\ sweep_pc' = "crashed"
            /\ UNCHANGED <<snapshot, handling>>
       ELSE /\ sweep_pc' = "scan_send"
            /\ handling' = Note(info.monitor, "ended")
            /\ UNCHANGED snapshot
    /\ UNCHANGED <<call, now, monitors, active_monitors, completed_history,
                   recent_game_ids, channels, ended_game_ids, frame, reply,
                   recorded>>

\* 126-127: the send returns.
SweepSent ==
    /\ sweep_pc = "scan_send"
    /\ ended_game_ids' = Append(ended_game_ids, Head(snapshot).gid)
    /\ snapshot' = Tail(snapshot)
    /\ sweep_pc' = "scan"
    /\ UNCHANGED <<call, now, monitors, active_monitors, completed_history,
                   recent_game_ids, channels, frame, reply, handling, recorded>>

\* 130: the scan is over.
SweepScanned ==
    /\ sweep_pc = "scan"
    /\ snapshot = <<>>
    /\ sweep_pc' = "post"
    /\ UNCHANGED <<call, now, monitors, active_monitors, completed_history,
                   recent_game_ids, channels, snapshot, ended_game_ids, frame,
                   reply, handling, recorded>>

\* 57-106 up to the first await of post_final_results(Head(ended_game_ids)).
PostFinalResults ==
    /\ sweep_pc = "post"
    /\ ended_game_ids # <<>>
    /\ LET game_id == Head(ended_game_ids) IN
       IF game_id \notin ActiveIds
       THEN \* 64-65
            /\ ended_game_ids' = Tail(ended_game_ids)
            /\ UNCHANGED <<active_monitors, completed_history, recent_game_ids,
                           sweep_pc, frame, handling, recorded>>
       ELSE
       LET monitor_info == Info(game_id)
           m == monitor_info.monitor
           monitor == monitors[m]
           channel_id == monitor_info.channel_id
           popped == [handling EXCEPT ![m].popped = @ + 1]
       IN
       /\ active_monitors' = Without(game_id)
       /\ IF channel_id \notin channels
          THEN \* 69-70
               /\ ended_game_ids' = Tail(ended_game_ids)
               /\ handling' = popped
               /\ UNCHANGED <<completed_history, recent_game_ids, sweep_pc,
                              frame, recorded>>
          ELSE IF \/ Falsy(monitor.end_game_state)
                  \/ "players" \notin DOMAIN monitor.end_game_state
          THEN \* 76-78
               /\ sweep_pc' = "post_send_78"
               /\ frame' = [game_id |-> game_id, channel_id |-> channel_id,
                            monitor |-> m]
               /\ handling' = [popped EXCEPT ![m].sent = @ \cup {"no_scores"}]
               /\ UNCHANGED <<completed_history, recent_game_ids,
                              ended_game_ids, recorded>>
          ELSE IF FinalResultsRaises(monitor)
          THEN \* 104-106
               /\ ended_game_ids' = Tail(ended_game_ids)
               /\ handling' = popped
               /\ UNCHANGED <<completed_history, recent_game_ids, sweep_pc,
                              frame, recorded>>
          ELSE \* 83-102
               LET final_results ==
                       FinalResults(monitor.end_game_state.players,
                                    monitor.player_names)
                   st == store_completed_game(completed_history,
                             recent_game_ids, game_id, final_results, channel_id)
               IN
               /\ completed_history' = st.history
               /\ recent_game_ids' = st.recent
               /\ recorded' = Append(recorded, game_id)
               /\ sweep_pc' = "post_send_102"
               /\ frame' = [game_id |-> game_id, channel_id |-> channel_id,
                            monitor |-> m]
               /\ handling' = [popped EXCEPT ![m].stored = @ + 1,
                                             ![m].sent = @ \cup {"final"}]
               /\ UNCHANGED ended_game_ids
    /\ UNCHANGED <<call, now, monitors, channels, snapshot, reply>>

\* 78-80: the send returns, the empty record is stored.
PostSent78 ==
    /\ sweep_pc = "post_send_78"
    /\ LET st == store_completed_game(completed_history, recent_game_ids,
                     frame.game_id, EmptyDict, frame.channel_id)
       IN /\ completed_history' = st.history
          /\ recent_game_ids' = st.recent
    /\ recorded' = Append(recorded, frame.game_id)
    /\ handling' = [handling EXCEPT ![frame.monitor].stored = @ + 1]
    /\ ended_game_ids' = Tail(ended_game_ids)
    /\ frame' = NoneVal
    /\ sweep_pc' = "post"
    /\ UNCHANGED <<call, now, monitors, active_monitors, channels, snapshot, reply>>

\* 102: the send returns.
PostSent102 ==
    /\ sweep_pc = "post_send_102"
    /\ ended_game_ids' = Tail(ended_game_ids)
    /\ frame' = NoneVal
    /\ sweep_pc' = "post"
    /\ UNCHANGED <<call, now, monitors, active_monitors, completed_history,
                   recent_game_ids, channels, snapshot, reply, handling,
                   recorded>>

\* 133: asyncio.sleep(5)
SweepSleep ==
    /\ sweep_pc = "post"
    /\ ended_game_ids = <<>>
    /\ sweep_pc' = "sleep"
    /\ UNCHANGED <<call, now, monitors, active_monitors, completed_history,
                   recent_game_ids, channels, snapshot, ended_game_ids, frame,
                   reply, handling, recorded>>

Sweep ==
    \/ SweepWake \/ SweepScan \/ SweepSent \/ SweepScanned
    \/ PostFinalResults \/ PostSent78 \/ PostSent102 \/ SweepSleep

WatchArgs == {<<"", g>> : g \in GameIds} \cup {<<"#", g>> : g \in GameIds}

Init ==
    /\ now = 0
    /\ monitors = <<>>
    /\ active_monitors = <<>>
    /\ completed_history = EmptyDict
    /\ recent_game_ids = <<>>
    /\ channels = Channels
    /\ sweep_pc = "sleep"
    /\ snapshot = <<>>
    /\ ended_game_ids = <<>>
    /\ frame = NoneVal
    /\ reply = ""
    /\ handling = <<>>
    /\ recorded = <<>>
    /\ call = NoneVal

\* The clock stands still under the bot: main.py reads it only for the
\* timestamp of a record; LoopSpec runs it.
Next ==
    \/ \E arg \in WatchArgs, ch \in Channels : Watch(arg, ch)
    \/ \E ch \in Channels : DeleteChannel(ch)
    \/ Sweep
    \/ \E m \in 1..MaxMonitors : Thread(m, LeanPage)

Spec == Init /\ [][Next]_vars

(***************************************************************************)
(* The bot after "!watch 1" was accepted, while nobody else talks to it    *)
(* and the cleanup loop sleeps: the monitor's thread on the rich page and  *)
(* !gamestate commands.                                                    *)
(***************************************************************************)
StatusInit ==
    /\ now = 0
    /\ monitors = <<watch_game(ColonistMonitor, 1)>>
    /\ active_monitors = <<[gid |-> 1, monitor |-> 1, channel_id |-> "chan"]>>
    /\ completed_history = EmptyDict
    /\ recent_game_ids = <<>>
    /\ channels = Channels
    /\ sweep_pc = "sleep"
    /\ snapshot = <<>>
    /\ ended_game_ids = <<>>
    /\ frame = NoneVal
    /\ reply = "Started"
    /\ handling = <<[popped |-> 0, stored |-> 0, sent |-> {}]>>
    /\ recorded = <<>>
    /\ call = NoneVal

StatusNext ==
    \/ \E arg \in WatchArgs, ch \in Channels : GameState(arg, ch)
    \/ \E m \in 1..MaxMonitors : Thread(m, RichPage)

StatusSpec == StatusInit /\ [][StatusNext]_vars

(***************************************************************************)
(* The same bot from the accepted "!watch 1" to the end of the game's      *)
(* completion handling: the thread, the cleanup loop, the channel and      *)
(* !gamestate commands, with the clock running.                            *)
(***************************************************************************)
ArchiveNext ==
    \/ \E arg \in WatchArgs, ch \in Channels : GameState(arg, ch)
    \/ \E ch \in Channels : DeleteChannel(ch)
    \/ Sweep
    \/ Tick
    \/ \E m \in 1..MaxMonitors : Thread(m, RichPage)

ArchiveSpec == StatusInit /\ [][ArchiveNext]_vars

(***************************************************************************)
(* The Scoring Extractor called on its own: the bot is idle, a call is     *)
(* pending on an argument and one action runs it.                          *)
(***************************************************************************)
Pending(fn, arg) ==
    [fn |-> fn, arg |-> arg, done |-> FALSE, raised |-> FALSE, result |-> NoneVal]

Idle ==
    /\ now = 0
    /\ monitors = <<>>
    /\ active_monitors = <<>>
    /\ completed_history = EmptyDict
    /\ recent_game_ids = <<>>
    /\ channels = Channels
    /\ sweep_pc = "sleep"
    /\ snapshot = <<>>
    /\ ended_game_ids = <<>>
    /\ frame = NoneVal
    /\ reply = ""
    /\ handling = <<>>
    /\ recorded = <<>>

idleVars == <<now, monitors, active_monitors, completed_history,
              recent_game_ids, channels, sweep_pc, snapshot, ended_game_ids,
              frame, reply, handling, recorded>>

\* victoryPointsState: counts under some of the keys "0".."5"
VpKeys == {"0", "1", "2", "3", "4", "5"}
VpDicts == UNION {[K -> 0..MaxCount] : K \in SUBSET VpKeys}

PlayerOf(color, username, vp_dict) ==
    [state |-> [color |-> color, victoryPointsState |-> vp_dict],
     userState |-> [username |-> username]]
Bob == PlayerOf(1, "Bob", "0" :> 3 @@ "3" :> 1)

\* players without a user record, a state record, a breakdown, a username
MalformedPlayers ==
    {NoUser,
     [userState |-> [username |-> "Alice"]],
     [state |-> [color |-> 0], userState |-> [username |-> "Alice"]],
     [state |-> [color |-> 0, victoryPointsState |-> ("0" :> 2 @@ "1" :> 1)],
      userState |-> EmptyDict]}

RawStates ==
    {[players |-> <<PlayerOf(0, "Alice", v)>>] : v \in VpDicts}
    \cup {[players |-> <<Alice, Bob>>], [players |-> <<>>],
          [isGameOver |-> FALSE], NoneVal}
    \cup {[players |-> <<p>>] : p \in MalformedPlayers}
    \cup {[players |-> <<Alice, p>>] : p \in MalformedPlayers}

\* 179-190 called on a raw state
CalculateVictoryPoints ==
    /\ call.fn = "_calculate_victory_points"
    /\ ~call.done
    /\ call' = IF CalculateRaises(call.arg)
               THEN Raised(call.fn, call.arg)
               ELSE Returned(call.fn, call.arg,
                             calculate_victory_points(call.arg))
    /\ UNCHANGED idleVars

\* raw states handed to get_player_names
NamedStates ==
    {[players |-> <<Alice, Bob>>], [players |-> <<>>], [isGameOver |-> FALSE],
     NoneVal,
     [players |-> <<[state |-> [color |-> 2], userState |-> EmptyDict]>>]}
    \cup {[players |-> <<p>>] : p \in MalformedPlayers}
    \cup {[players |-> <<Alice, p>>] : p \in MalformedPlayers}

\* 153-165 called on a raw state
GetPlayerNames ==
    /\ call.fn = "get_player_names"
    /\ ~call.done
    /\ call' = IF GetPlayerNamesRaises(call.arg)
               THEN Raised(call.fn, call.arg)
               ELSE Returned(call.fn, call.arg, get_player_names(call.arg))
    /\ UNCHANGED idleVars

\* end_game_state['players']: color code -> victoryPoints, winningPlayer
EndVps == {"0" :> 3 @@ "3" :> 1, EmptyDict, "1" :> 1 @@ "5" :> 2}
EndInfos ==
    {[victoryPoints |-> v] : v \in EndVps}
    \cup {[victoryPoints |-> v, winningPlayer |-> w] : v \in EndVps, w \in BOOLEAN}
    \cup {EmptyDict, [winningPlayer |-> TRUE], [winningPlayer |-> FALSE]}
EndStates ==
    {[players |-> << <<c, i>> >>] : c \in {"0", "1"}, i \in EndInfos}
    \cup {[players |-> << <<"0", i>>, <<"1", j>> >>] : i, j \in EndInfos}

\* monitor.player_names, captured at line 95 of game_monitor.py
CapturedNames == {EmptyDict, 0 :> "Bob", 0 :> "Bob" @@ 1 :> "Carol"}

\* monitor.state_log when the game ends: empty or with a last record
EndLogs == {<<>>, << <<"turn", GS_Ongoing>> >>}

\* main.py 82-92 on a monitor whose end-game state has players
ScoreEndGame ==
    /\ call.fn = "post_final_results"
    /\ ~call.done
    /\ call' = IF FinalResultsRaises(call.arg)
               THEN Raised(call.fn, call.arg)
               ELSE Returned(call.fn, call.arg,
                             FinalResults(call.arg.end_game_state.players,
                                          call.arg.player_names))
    /\ UNCHANGED idleVars

ScoreInit ==
    /\ Idle
    /\ call \in {Pending("_calculate_victory_points", g) : g \in RawStates}
           \cup {Pending("get_player_names", g) : g \in NamedStates}
           \cup {Pending("post_final_results",
                         [state_log |-> l, end_game_state |-> e,
                          player_names |-> n]) :
                    l \in EndLogs, e \in EndStates, n \in CapturedNames}

ScoreNext == CalculateVictoryPoints \/ GetPlayerNames \/ ScoreEndGame

ScoreSpec == ScoreInit /\ [][ScoreNext]_vars

(***************************************************************************)
(* Script Rewriter (colonist_intercept.py), called by the proxy on one     *)
(* request and its response.                                               *)
(*                                                                         *)
(* A body is a sequence of bytes, a str a sequence of pieces of text.  The *)
(* bytes 1..5 are the UTF-8 encodings of the pieces below, byte 9 is not   *)
(* valid UTF-8, and a gzip stream is byte 0 followed by what it holds.     *)
(***************************************************************************)
\* "P1" and "P2" are the two search literals (28, 32), "R1" replaces the
\* first (29), "W" is what the second replacement adds after "P2" (33), "x"
\* is any other text.
Utf8 == (1 :> "P1" @@ 2 :> "P2" @@ 3 :> "x" @@ 4 :> "R1" @@ 5 :> "W")

\* bytes.decode('utf-8', errors='ignore')
RECURSIVE Utf8Decode(_)
Utf8Decode(bytes) ==
    IF bytes = <<>> THEN <<>>
    ELSE IF Head(bytes) \in DOMAIN Utf8
    THEN <<Utf8[Head(bytes)]>> \o Utf8Decode(Tail(bytes))
    ELSE Utf8Decode(Tail(bytes))

\* str.encode('utf-8')
Utf8Encode(str) ==
    [i \in 1..Len(str) |-> CHOOSE b \in DOMAIN Utf8 : Utf8[b] = str[i]]

Compress(bytes) == <<0>> \o bytes

\* seleniumwire.utils.decode(body, encoding)
DecodeRaises(body, encoding) ==
    encoding = "gzip" /\ (body = <<>> \/ Head(body) # 0)

decode(body, encoding) == IF encoding = "gzip" THEN Tail(body) ELSE body

\* str.replace(old, new, 1)
RECURSIVE ReplaceFirst(_, _, _)
ReplaceFirst(str, old, new) ==
    IF str = <<>> THEN <<>>
    ELSE IF Head(str) = old THEN new \o Tail(str)
    ELSE <<Head(str)>> \o ReplaceFirst(Tail(str), old, new)

\* 14-17: the response is a 200 for a web.<hash>.js under colonist.io/dist/
IsGameScript(request, response) ==
    /\ response # NoneVal
    /\ response.status_code = 200
    /\ request.url.dist
    /\ request.url.web_js

\* 8-51: the response as the proxy has it when the interceptor returns
expose_game_data(request, response) ==
    IF ~IsGameScript(request, response) THEN response
    ELSE LET encoding == Get(response.headers, "Content-Encoding", "identity") IN
         IF DecodeRaises(response.body, encoding) THEN response   \* 48-51
         ELSE
         LET original_body == decode(response.body, encoding)
             body_str == Utf8Decode(original_body)
             new_body_str ==
                 ReplaceFirst(ReplaceFirst(body_str, "P1", <<"R1">>),
                              "P2", <<"P2", "W">>)
             body == Utf8Encode(new_body_str)
             kept == DOMAIN response.headers \ {"Content-Encoding"}
         IN [status_code |-> response.status_code,
             body |-> body,
             headers |-> [h \in kept \cup {"Content-Length"} |->
                             IF h = "Content-Length" THEN Len(body)
                             ELSE response.headers[h]]]

ExposeGameData ==
    /\ call.fn = "expose_game_data"
    /\ ~call.done
    /\ call' = Returned(call.fn, call.arg,
                        expose_game_data(call.arg.request, call.arg.response))
    /\ UNCHANGED idleVars

\* What the proxy hands over.
Texts == UNION {[1..n -> {1, 2, 3, 9}] : n \in 0..MaxBody}
Urls == [dist : BOOLEAN, web_js : BOOLEAN]

HeadersOf(body, encoding, with_length) ==
    [h \in (IF encoding = "none" THEN {} ELSE {"Content-Encoding"})
           \cup (IF with_length THEN {"Content-Length"} ELSE {}) |->
        IF h = "Content-Length" THEN Len(body) ELSE encoding]

ResponseOf(status_code, body, encoding, with_length) ==
    [status_code |-> status_code, body |-> body,
     headers |-> HeadersOf(body, encoding, with_length)]

\* plain bodies, gzip bodies, and a body that is not the gzip it claims to be
Responses ==
    {ResponseOf(st, t, e, l) :
        st \in {200, 404}, t \in Texts, e \in {"none", "identity"}, l \in BOOLEAN}
    \cup {ResponseOf(st, Compress(t), "gzip", l) :
             st \in {200, 404}, t \in Texts, l \in BOOLEAN}
    \cup {ResponseOf(200, <<3>>, "gzip", TRUE), NoneVal}

RewriteInit ==
    /\ Idle
    /\ call \in {Pending("expose_game_data", [request |-> [url |-> u],
                                               response |-> r]) :
                    u \in Urls, r \in Responses}

RewriteNext == ExposeGameData

RewriteSpec == RewriteInit /\ [][RewriteNext]_vars

(***************************************************************************)
(* Properties.                                                             *)
(***************************************************************************)
Terminal == {"finally", "quit", "done"}
PollingPcs == {"poll_gs", "poll_phase", "grace", "probe_end"}

OneSessionPerId ==
    /\ \A gid \in GameIds :
          /\ Cardinality({i \in 1..Len(active_monitors) :
                             active_monitors[i].gid = gid}) <= 1
          /\ Cardinality({m \in Monitors : /\ monitors[m].game_id = gid
                                           /\ monitors[m].monitoring}) <= 1
    /\ \A m \in Monitors :
          /\ monitors[m].threads <= 1
          /\ monitors[m].monitoring =>
                \E i \in 1..Len(active_monitors) : active_monitors[i].monitor = m

WatchOfActiveIsRejected ==
    \A arg \in WatchArgs, ch \in Channels :
       (Watch(arg, ch) /\ StripHash(arg)[2] \in ActiveIds)
          => /\ reply' = "AlreadyActive"
             /\ UNCHANGED <<monitors, active_monitors, completed_history,
                            recent_game_ids>>

\* C1: in every state each game id has at most one entry in the active set
\* and at most one monitor whose monitoring flag is up, that monitor is the
\* one in the active set and has one thread; and every watch of an id in the
\* active set is answered AlreadyActive and leaves monitors, active set and
\* history as they were.
C1_OneActiveSessionPerId ==
    []OneSessionPerId /\ [][WatchOfActiveIsRejected]_vars

C1_Witness ==
    /\ reply = "AlreadyActive"
    /\ Len(active_monitors) = 2
    /\ \E m \in Monitors : monitors[m].pc \in PollingPcs

\* Completion handling for monitor m is over: its session was popped and
\* post_final_results is not suspended on it.
Handled(m) ==
    /\ handling[m].popped >= 1
    /\ ~(sweep_pc \in {"post_send_78", "post_send_102"} /\ frame.monitor = m)

\* C2: no session is popped twice, and once completion handling of a session
\* is over exactly one CompletedGameRecord has been stored for it and its
\* monitor is no longer in the active set.
C2_HandledExactlyOnce ==
    \A m \in Monitors :
       /\ handling[m].popped <= 1
       /\ handling[m].stored <= 1
       /\ Handled(m) =>
             /\ handling[m].stored = 1
             /\ \A i \in 1..Len(active_monitors) : active_monitors[i].monitor # m

\* C3: driver.quit() runs at most once; a thread that has ended has run it
\* once and left the flag down; it runs only as the thread's last step; and a
\* loop that has reached an outcome is in the finally block or past it.
C3_ReleasedExactlyOnce ==
    \A m \in Monitors :
       /\ monitors[m].quits <= 1
       /\ monitors[m].pc = "done" <=> monitors[m].quits = 1
       /\ monitors[m].pc \in {"quit", "done"} => ~monitors[m].monitoring
       /\ monitors[m].outcome # "none" <=> monitors[m].pc \in Terminal

C3_Witness ==
    \E m \in Monitors :
       /\ monitors[m].pc = "done"
       /\ monitors[m].outcome = "never"
       /\ monitors[m].quits = 1
       /\ ~monitors[m].monitoring

\* C4: the cleanup loop is never taken down.
C4_SweepSurvives == sweep_pc # "crashed"

Elapsed(mon) == now - mon.latest_update_time

StallInv ==
    \A m \in Monitors :
       monitors[m].outcome = "timeout" =>
          /\ monitors[m].pc \in Terminal
          /\ monitors[m].end_game_state = NoneVal
          /\ Elapsed(monitors[m]) > max_wait_seconds
          /\ monitors[m].quits <= 1
          /\ monitors[m].pc = "done" =>
                monitors[m].quits = 1 /\ ~monitors[m].monitoring

\* A tick that saw no game-over and whose phase probe returned.
StallStep ==
    \A m \in Monitors :
       (/\ monitors[m].pc = "poll_phase"
        /\ monitors'[m].pc # "poll_phase"
        /\ monitors'[m].outcome # "error")
       => IF monitors'[m].state_log # monitors[m].state_log
          THEN /\ monitors'[m].latest_update_time = now
               /\ monitors'[m].pc = "poll_gs"
               /\ monitors'[m].outcome = "none"
          ELSE /\ monitors'[m].latest_update_time = monitors[m].latest_update_time
               /\ IF Elapsed(monitors[m]) > max_wait_seconds
                  THEN /\ monitors'[m].outcome = "timeout"
                       /\ monitors'[m].pc = "finally"
                       /\ monitors'[m].end_game_state = NoneVal
                  ELSE /\ monitors'[m].pc = "poll_gs"
                       /\ monitors'[m].outcome = "none"

\* C5: a tick without game-over that records no phase change ends the loop as
\* a timeout exactly when more than max_wait_seconds have passed since the
\* last recorded change; a tick that records a change restarts the window and
\* polls on; after a timeout the end-game state is absent, the flag goes down
\* and the driver is quit once.
C5_StallTimeout == []StallInv /\ [][StallStep]_vars

C5_Witness ==
    \E m \in Monitors :
       /\ monitors[m].outcome = "timeout"
       /\ monitors[m].pc = "done"
       /\ Len(monitors[m].state_log) = 2
       /\ monitors[m].latest_update_time > 0

Range(seq) == {seq[i] : i \in 1..Len(seq)}

MostRecent ==
    IF Len(recorded) <= MAX_HISTORY THEN recorded
    ELSE SubSeq(recorded, Len(recorded) - MAX_HISTORY + 1, Len(recorded))

\* C6: the history holds at most MAX_HISTORY records, the recency list is the
\* last MAX_HISTORY recorded ids in order, and exactly those ids can be
\* looked up.
C6_HistoryHoldsMostRecent ==
    /\ Cardinality(DOMAIN completed_history) <= MAX_HISTORY
    /\ recent_game_ids = MostRecent
    /\ DOMAIN completed_history = Range(MostRecent)

MissingEndState(m) ==
    /\ monitors[m].outcome = "success"
    /\ \/ Falsy(monitors[m].end_game_state)
       \/ "players" \notin DOMAIN monitors[m].end_game_state

\* C7: once completion handling is over for a session that saw game-over but
\* got no end-game state, an empty record has been stored for it and the
\* failure has been reported to its channel.
C7_MissingEndStateArchived ==
    \A m \in Monitors :
       (MissingEndState(m) /\ Handled(m))
          => /\ handling[m].stored = 1
             /\ "no_scores" \in handling[m].sent

\* C8: every watch of an id in the completed history is answered
\* AlreadyCompleted and leaves monitors, active set and history as they were.
C8_WatchOfCompletedIsRejected ==
    [][\A arg \in WatchArgs, ch \in Channels :
          (Watch(arg, ch) /\ StripHash(arg)[2] \in DOMAIN completed_history)
             => /\ reply' = "AlreadyCompleted"
                /\ UNCHANGED <<monitors, active_monitors, completed_history,
                               recent_game_ids>>]_vars

\* C9: a loop whose last probe raised a RuntimeFault has finished as an error
\* and issues no further probe.
C9_RuntimeFaultAborts ==
    \A m \in Monitors :
       monitors[m].fault = "RuntimeFault" =>
          /\ monitors[m].pc \in Terminal
          /\ monitors[m].outcome = "error"

WaitInv ==
    \A m \in Monitors :
       /\ monitors[m].attempts <= max_attempts
       /\ monitors[m].pc = "wait" => monitors[m].attempts < max_attempts
       /\ monitors[m].pc = "never" => monitors[m].attempts = max_attempts
       /\ monitors[m].outcome = "never" =>
             /\ monitors[m].state_log = <<>>
             /\ monitors[m].end_game_state = NoneVal
             /\ monitors[m].player_names = EmptyDict
       /\ monitors[m].pc \in PollingPcs =>
             /\ Len(monitors[m].state_log) >= 1
             /\ monitors[m].player_names =
                   get_player_names(monitors[m].state_log[1][2])

WaitStep ==
    \A m \in Monitors :
       /\ (monitors[m].pc = "wait" /\ monitors'[m].pc # "wait") =>
             \/ /\ monitors'[m].pc = "wait_sleep"
                /\ monitors'[m].attempts = monitors[m].attempts + 1
             \/ /\ monitors'[m].pc = "init_phase"
                /\ monitors'[m].attempts = monitors[m].attempts
       /\ monitors'[m].pc \in PollingPcs =>
             \/ monitors[m].pc \in PollingPcs
             \/ /\ monitors[m].pc = "init_gs"
                /\ monitors[m].state_log = <<>>
                /\ Len(monitors'[m].state_log) = 1
                /\ monitors'[m].state_log[1][1] = monitors[m].prev_current_state

\* C10: every probe of the waiting loop is made with fewer than max_attempts
\* failures behind it and a failed probe adds one, so there are at most
\* max_attempts probes; when all have failed the loop ends with an empty log,
\* no end-game state and no names; Polling is entered only from the initial
\* probes, with the initial phase and raw state as the first record and the
\* names taken from that raw state.
C10_WaitingIsBounded == []WaitInv /\ [][WaitStep]_vars

C10_Witness ==
    \E m \in Monitors :
       /\ monitors[m].pc = "poll_gs"
       /\ monitors[m].attempts = max_attempts - 1
       /\ Len(monitors[m].state_log) = 1
       /\ monitors[m].player_names # EmptyDict

\* C11: a !gamestate for an id of the active set whose game is going on
\* answers with the score table computed from the raw state of the last
\* record of the session's log, and with "no state yet" only while the log
\* is empty.
C11_StatusFromLastRecord ==
    [][\A arg \in WatchArgs, ch \in Channels :
          (/\ GameState(arg, ch)
           /\ StripHash(arg)[2] \in ActiveIds
           /\ monitors[Info(StripHash(arg)[2]).monitor].monitoring)
          => LET state_log == monitors[Info(StripHash(arg)[2]).monitor].state_log
             IN IF state_log = <<>>
                THEN reply' = "NoStateYet"
                ELSE /\ reply' = "Current"
                     /\ ~call'.raised
                     /\ call'.result =
                           calculate_victory_points(state_log[Len(state_log)][2])
      ]_vars

WellFormedPlayer(p) ==
    /\ "userState" \in DOMAIN p /\ "username" \in DOMAIN p.userState
    /\ "state" \in DOMAIN p /\ "victoryPointsState" \in DOMAIN p.state

WellFormedState(g) ==
    /\ g # NoneVal
    /\ "players" \in DOMAIN g
    /\ \A i \in 1..Len(g.players) : WellFormedPlayer(g.players[i])
    /\ \A i, j \in 1..Len(g.players) :
          g.players[i].userState.username = g.players[j].userState.username
             => i = j

\* sum of count[c] * multiplier[c], an absent category counting 0
Weighted(v) ==
    Get(v, "0", 0) + 2 * Get(v, "1", 0) + Get(v, "2", 0)
    + 2 * Get(v, "3", 0) + 2 * Get(v, "4", 0)

\* C12: scoring a raw state whose players carry a name and a point-count
\* mapping returns one total per player, the sum of count[c] * multiplier[c]
\* over the categories 0..4 with the multipliers 1, 2, 1, 2, 2; an absent
\* category counts 0 and a key outside 0..4 adds nothing.
C12_TotalIsWeightedSum ==
    (/\ call.fn = "_calculate_victory_points"
     /\ call.done
     /\ WellFormedState(call.arg))
    => /\ ~call.raised
       /\ DOMAIN call.result =
             {call.arg.players[i].userState.username :
                 i \in 1..Len(call.arg.players)}
       /\ \A i \in 1..Len(call.arg.players) :
             call.result[call.arg.players[i].userState.username] =
                Weighted(call.arg.players[i].state.victoryPointsState)

\* Alice's counts {0: 2, 1: 1} were scored {Alice: 4}, and a mapping with a
\* key outside 0..4 and an absent category was scored too.
C12_Witness ==
    /\ call.fn = "_calculate_victory_points"
    /\ call.done
    /\ \/ /\ call.arg = [players |-> <<Alice>>]
          /\ call.result = ("Alice" :> 4)
       \/ /\ call.arg = [players |-> <<PlayerOf(0, "Alice", "3" :> 2 @@ "5" :> 2)>>]
          /\ call.result = ("Alice" :> 4)

\* C13: no scoring call on a raw or end-game state fails because a player
\* entry lacks its user record, its state record or its victory-point
\* breakdown: the call returns.
C13_MalformedPlayersTolerated ==
    (call.done /\ call.arg # NoneVal) => ~call.raised

\* the text of the script in a response
ScriptText(response) ==
    Utf8Decode(decode(response.body,
                      Get(response.headers, "Content-Encoding", "identity")))

\* C14: when the interceptor has run on a game script whose text holds
\* neither search literal, the response is the one it was given: the same
\* body, the same Content-Encoding and Content-Length headers.
C14_NoMatchLeavesResponse ==
    (/\ call.done
     /\ IsGameScript(call.arg.request, call.arg.response)
     /\ \A i \in 1..Len(ScriptText(call.arg.response)) :
           ScriptText(call.arg.response)[i] \notin {"P1", "P2"})
    => call.result = call.arg.response

\* C15: scoring an end-game state whose entries carry a breakdown yields one
\* (displayName, points, isWinner) per color code, in order: the name
\* captured for the color at watch start or else Color<N>, the breakdown
\* under the multipliers 1, 2, 1, 2, 2, and the winner flag, false if absent.
C15_EndGameEntries ==
    (/\ call.fn = "post_final_results"
     /\ call.done
     /\ \A i \in 1..Len(call.arg.end_game_state.players) :
           "victoryPoints" \in DOMAIN call.arg.end_game_state.players[i][2])
    => /\ ~call.raised
       /\ Len(call.result) = Len(call.arg.end_game_state.players)
       /\ \A i \in 1..Len(call.result) :
             LET color == call.arg.end_game_state.players[i][1]
                 info == call.arg.end_game_state.players[i][2]
                 names == call.arg.player_names
             IN /\ call.result[i][1] =
                      (CASE color = "0" /\ 0 \in DOMAIN names -> names[0]
                         [] color = "1" /\ 1 \in DOMAIN names -> names[1]
                         [] color = "0" -> "Color0"
                         [] OTHER -> "Color1")
                /\ call.result[i][2] = Weighted(info.victoryPoints)
                /\ call.result[i][3] = ("winningPlayer" \in DOMAIN info
                                        /\ info.winningPlayer)

\* Color 0 captured as Bob, counts {0: 3, 3: 1}, winner flag set: (Bob, 5,
\* true), although the last record of the log names color 0 Alice.
C15_Witness ==
    /\ call.fn = "post_final_results"
    /\ call.done
    /\ call.arg.end_game_state = EG_Ok
    /\ call.arg.player_names = (0 :> "Bob")
    /\ call.arg.state_log # <<>>
    /\ call.result = << <<"Bob", 5, TRUE>> >>

LastPhase(mon) == mon.state_log[Len(mon.state_log)][1]

\* Any two consecutive records differ in phase, and in Polling the phase the
\* loop compares with is the phase of the last record.
LogInv ==
    \A m \in Monitors :
       /\ \A i \in 1..(Len(monitors[m].state_log) - 1) :
             monitors[m].state_log[i][1] # monitors[m].state_log[i + 1][1]
       /\ monitors[m].pc \in PollingPcs
             => /\ monitors[m].state_log # <<>>
                /\ monitors[m].prev_current_state = LastPhase(monitors[m])

\* A step of the thread in Polling: a tick that probed the phase and goes on
\* appended (phase, raw state) and set the timestamp to now if the phase
\* differs from the last recorded one, and left both alone if it is the
\* same; every other step leaves the log and the timestamp alone.
LogStep ==
    \A m \in Monitors :
       monitors[m].pc \in PollingPcs =>
          LET mon == monitors[m]
              after == monitors'[m]
          IN IF mon.pc = "poll_phase" /\ after.pc = "poll_gs"
             THEN IF after.curr_current_state # LastPhase(mon)
                  THEN /\ after.state_log =
                             Append(mon.state_log,
                                    <<after.curr_current_state, mon.curr_game_state>>)
                       /\ after.latest_update_time = now
                  ELSE /\ after.state_log = mon.state_log
                       /\ after.latest_update_time = mon.latest_update_time
             ELSE /\ after.state_log = mon.state_log
                  /\ after.latest_update_time = mon.latest_update_time

\* C16: in Polling the log only grows, by one record exactly when the probed
\* phase differs from the last recorded phase, and then the last-change
\* timestamp becomes now; consecutive records carry different phases, and a
\* tick on the same phase changes neither the log nor the timestamp.
C16_RecordOnPhaseChange == []LogInv /\ [][LogStep]_vars

\* A second record was appended after the clock moved, and a later tick on
\* the same phase went by.
C16_Witness ==
    \E m \in Monitors :
       /\ Len(monitors[m].state_log) = 2
       /\ monitors[m].latest_update_time > 0
       /\ monitors[m].pc = "poll_gs"
       /\ monitors[m].curr_current_state = LastPhase(monitors[m])
       /\ now > monitors[m].latest_update_time

IsGameOver(g) == g # NoneVal /\ Get(g, "isGameOver", FALSE)

\* The grace period and the probe of the end-of-game global belong to a tick
\* that saw the game-over flag, the phase probe to one that did not, and a
\* loop that ended in success is over.
GameOverInv ==
    \A m \in Monitors :
       /\ monitors[m].pc \in {"grace", "probe_end"}
             => IsGameOver(monitors[m].curr_game_state)
       /\ monitors[m].pc = "poll_phase"
             => ~IsGameOver(monitors[m].curr_game_state)
       /\ monitors[m].outcome = "success" => monitors[m].pc \in Terminal

GameOverStep ==
    \A m \in Monitors :
       LET mon == monitors[m]
           after == monitors'[m]
       IN \* a tick that probes a finished game goes to the grace period
          /\ (mon.pc = "poll_gs" /\ IsGameOver(after.curr_game_state))
                => after.pc = "grace"
          \* the end-of-game global is probed only after the grace period
          /\ (after.pc = "probe_end" /\ mon.pc # "probe_end")
                => mon.pc = "grace"
          \* and is stored by that probe alone, which ends the loop in success
          /\ after.end_game_state # mon.end_game_state
                => /\ mon.pc = "probe_end"
                   /\ after.outcome = "success"
          /\ (mon.pc = "probe_end" /\ after.pc # "probe_end")
                => /\ after.pc = "finally"
                   /\ after.outcome \in {"success", "error"}
                   /\ after.outcome = "error"
                         => after.end_game_state = mon.end_game_state
          \* from the game-over tick on: no record, no phase probe, no
          \* timeout
          /\ (mon.pc \in {"grace", "probe_end"} \/ mon.outcome = "success")
                => /\ after.state_log = mon.state_log
                   /\ after.latest_update_time = mon.latest_update_time
                   /\ after.curr_current_state \in {mon.curr_current_state, ""}
                   /\ after.pc # "poll_phase"
                   /\ after.outcome # "timeout"

\* C17: a Polling tick that probes a game state with the game-over flag set
\* waits the grace period, then probes the end-of-game global, stores it as
\* the end-game state and ends in success; from that tick on no record is
\* appended, no phase is probed and no stall timeout is taken, and the
\* end-of-game global is never probed before the grace period.
C17_GameOverTick == []GameOverInv /\ [][GameOverStep]_vars

\* The game ended after a phase change: the end-of-game global was stored
\* and the loop ended in success.
C17_Witness ==
    \E m \in Monitors :
       /\ monitors[m].outcome = "success"
       /\ monitors[m].end_game_state = EG_Ok
       /\ Len(monitors[m].state_log) = 2
       /\ monitors[m].pc = "done"

\* C18: no game id is at the same time in the active set and in the
\* completed history.
C18_ActiveOrCompleted == ActiveIds \cap DOMAIN completed_history = {}

\* C19: the recency list holds no id twice and its ids are exactly the keys
\* of the completed history.
C19_RecencyMatchesHistory ==
    /\ \A i, j \in 1..Len(recent_game_ids) :
          recent_game_ids[i] = recent_game_ids[j] => i = j
    /\ Range(recent_game_ids) = DOMAIN completed_history

\* The flag is up while the thread is anywhere before its finally block.
FlagInv ==
    \A m \in Monitors :
       monitors[m].pc \notin {"new", "finally", "quit", "done"}
          => monitors[m].monitoring

\* Once the flag of a started monitor is down, it stays down and the
\* end-game state, the log and the names stay as they are.
FlagStep ==
    \A m \in Monitors :
       (~monitors[m].monitoring /\ monitors[m].pc # "new")
          => /\ ~monitors'[m].monitoring
             /\ monitors'[m].end_game_state = monitors[m].end_game_state
             /\ monitors'[m].state_log = monitors[m].state_log
             /\ monitors'[m].player_names = monitors[m].player_names

\* C20: the monitoring flag is up from the start of the watch until the
\* loop has made its last write to the session; from the moment it is down,
\* so whenever the sweep finds it down for a session of the active set, the
\* session's end-game state, log and name mapping never change again.
C20_FlagDownAfterLastWrite == []FlagInv /\ [][FlagStep]_vars

\* The sweep found the flag down for a session of the active set that has a
\* record in its log and an end-game state.
C20_Witness ==
    \E i \in 1..Len(active_monitors) :
       LET m == active_monitors[i].monitor IN
       /\ "ended" \in handling[m].sent
       /\ ~monitors[m].monitoring
       /\ monitors[m].end_game_state = EG_Ok
       /\ monitors[m].state_log # <<>>

\* the id was given to store_completed_game and is no longer in the history
Evicted(gid) == gid \in Range(recorded) /\ gid \notin DOMAIN completed_history

ArchivedInv ==
    \A m \in Monitors :
       Handled(m) => \/ monitors[m].game_id \in DOMAIN completed_history
                     \/ Evicted(monitors[m].game_id)

ArchivedStep ==
    \A arg \in WatchArgs, ch \in Channels :
       (/\ GameState(arg, ch)
        /\ \E m \in Monitors : /\ monitors[m].game_id = StripHash(arg)[2]
                               /\ handling[m].popped = 0 \/ Handled(m)
        /\ ~Evicted(StripHash(arg)[2]))
       => reply' # "NotFound"

\* C21: once completion handling of a watched id is over, whatever way its
\* loop ended and whatever its end-game state, the id has a record in the
\* completed history unless it was evicted, and a !gamestate for a watched
\* id that is not evicted is never answered "neither active nor in history".
C21_NoWatchedGameLost == []ArchivedInv /\ [][ArchivedStep]_vars

====
